---- MODULE Spec2Model ----
(***************************************************************************)
(* Model of the quickfix field generator (gen/generate-fields/main.go)     *)
(* and of the generated SecurityListUpdateReport message wrapper.          *)
(*                                                                         *)
(* Go strings that the program orders (field names, enum values) are       *)
(* sequences of byte codes, compared as Go compares strings; strings that  *)
(* are only tested for equality (type names, descriptions) are TLA+        *)
(* strings.  Go maps are functions; a map's iteration order is a           *)
(* nondeterministic choice of a permutation of its keys.                   *)
(***************************************************************************)
EXTENDS Integers, Sequences, FiniteSets, TLC

\* ------------------------------------------------------------ bounds
\* number of dictionary paths on the command line (0 .. MaxDicts)
MaxDicts == 2
\* number of times the type mapper is called on one field
MaxCalls == 2
\* the tags 1 .. MaxTag of the fields the type mapper is called on
MaxTag == 3

\* ------------------------------------------------------------ helpers
\* Go's string comparison a < b: bytewise lexicographic
StrLess(a, b) ==
  \E i \in 1..(Len(a) + 1) :
     /\ \A j \in 1..(i - 1) : j <= Len(b) /\ a[j] = b[j]
     /\ \/ i = Len(a) + 1 /\ i <= Len(b)
        \/ i <= Len(a) /\ i <= Len(b) /\ a[i] < b[i]

\* every order in which a range over a map with key set S can visit the keys
Perms(S) ==
  { p \in [1..Cardinality(S) -> S] : \A x \in S : \E i \in DOMAIN p : p[i] = x }

EmptyMap == [x \in {} |-> ""]

MapPut(m, k, v) == [x \in DOMAIN m \cup {k} |-> IF x = k THEN v ELSE m[x]]

\* ------------------------------------------------------------ type mapper
\* the dictionary type names that quickfixType's switch lists
StringTypes ==
  { "MULTIPLESTRINGVALUE", "MULTIPLEVALUESTRING", "MULTIPLECHARVALUE", "CHAR",
    "CURRENCY", "DATA", "MONTHYEAR", "LOCALMKTDATE", "TIME", "DATE", "EXCHANGE",
    "LANGUAGE", "XMLDATA", "COUNTRY", "UTCTIMEONLY", "UTCDATE", "UTCDATEONLY",
    "TZTIMEONLY", "TZTIMESTAMP", "STRING" }

IntTypes == { "LENGTH", "DAYOFMONTH", "NUMINGROUP", "SEQNUM", "INT" }

FloatTypes ==
  { "QTY", "QUANTITY", "AMT", "PRICE", "PRICEOFFSET", "PERCENTAGE", "FLOAT" }

\* a Go error value: nil, the unknown-type error of quickfixType, or a
\* failure of gen.WriteFile
NoErr == [kind |-> "nil", type |-> "", tag |-> 0, path |-> ""]

UnknownTypeErr(type, tag) ==
  [kind |-> "unknownType", type |-> type, tag |-> tag, path |-> ""]

WriteErr(path) == [kind |-> "write", type |-> "", tag |-> 0, path |-> path]

\* the error of datadictionary.Parse for the i-th path
ParseErr(i) == [kind |-> "parse", type |-> "", tag |-> 0, path |-> ToString(i)]

\* a slip in the switch: UTCTIMESTAMP falls into the default case
quickfixType_missingCase(field) ==
  IF field.type \in StringTypes THEN [quickfixType |-> "FIXString", err |-> NoErr]
  ELSE IF field.type = "BOOLEAN" THEN [quickfixType |-> "FIXBoolean", err |-> NoErr]
  ELSE IF field.type \in IntTypes THEN [quickfixType |-> "FIXInt", err |-> NoErr]
  ELSE IF field.type \in FloatTypes THEN [quickfixType |-> "FIXFloat", err |-> NoErr]
  ELSE [quickfixType |-> "", err |-> UnknownTypeErr(field.type, field.tag)]

\* a slip in the default case: an unknown type is silently treated as text
quickfixType_silentDefault(field) ==
  IF field.type = "BOOLEAN" THEN [quickfixType |-> "FIXBoolean", err |-> NoErr]
  ELSE IF field.type \in IntTypes THEN [quickfixType |-> "FIXInt", err |-> NoErr]
  ELSE IF field.type = "UTCTIMESTAMP"
    THEN [quickfixType |-> "FIXUTCTimestamp", err |-> NoErr]
  ELSE IF field.type \in FloatTypes THEN [quickfixType |-> "FIXFloat", err |-> NoErr]
  ELSE [quickfixType |-> "FIXString", err |-> NoErr]

quickfixType(field) ==
  IF field.type \in StringTypes THEN [quickfixType |-> "FIXString", err |-> NoErr]
  ELSE IF field.type = "BOOLEAN" THEN [quickfixType |-> "FIXBoolean", err |-> NoErr]
  ELSE IF field.type \in IntTypes THEN [quickfixType |-> "FIXInt", err |-> NoErr]
  ELSE IF field.type = "UTCTIMESTAMP"
    THEN [quickfixType |-> "FIXUTCTimestamp", err |-> NoErr]
  ELSE IF field.type \in FloatTypes THEN [quickfixType |-> "FIXFloat", err |-> NoErr]
  ELSE [quickfixType |-> "", err |-> UnknownTypeErr(field.type, field.tag)]

quickfixValueType(qt) ==
  IF qt = "FIXString" THEN "string"
  ELSE IF qt = "FIXBoolean" THEN "bool"
  ELSE IF qt = "FIXInt" THEN "int"
  ELSE IF qt = "FIXUTCTimestamp" THEN "time.Time"
  ELSE IF qt = "FIXFloat" THEN "float64"
  ELSE ""

\* ------------------------------------------------------------ inputs
\* field names "A", "AB", "B" and enum values "1", "2", "3" as Go strings
NameA == <<65>>
NameAB == <<65, 66>>
NameB == <<66>>
Names == {NameA, NameAB, NameB}

Values == {<<49>>, <<50>>, <<51>>}
Descriptions == {"Buy", "Sell"}
Tags == {1, 2}
FieldKinds == {"INT", "BOGUSTYPE"}

\* datadictionary.FieldType: Name(), Tag(), Type and Enums (value -> description;
\* enumsNil is Go's nil map, which reads as empty and panics when written)
MkField(n, t, ty, e) ==
  [name |-> n, tag |-> t, type |-> ty, enumsNil |-> (DOMAIN e = {}), enums |-> e]

\* the enum maps a dictionary can declare for one field: any values with any
\* descriptions, two values of one field may carry the same description
EnumMaps == UNION { [D -> Descriptions] : D \in SUBSET Values }

\* what datadictionary.Parse returns for one path: an error, or a specification
\* whose FieldTypeByTag has one field per tag and one tag per name
Malformed == [ok |-> FALSE, FieldTypeByTag |-> EmptyMap]

ParsedSpec(byTag) == [ok |-> TRUE, FieldTypeByTag |-> byTag]

\* dictionaries declaring at most the field "A" (tag 1), with any enum map
EnumDicts ==
  {Malformed, ParsedSpec(EmptyMap)}
    \cup { ParsedSpec([t \in {1} |-> MkField(NameA, 1, "STRING", e)]) : e \in EnumMaps }

\* dictionaries declaring up to two fields without enums
FieldDicts ==
  {Malformed}
    \cup { ParsedSpec(m) : m \in
            { m \in UNION { [T -> { MkField(n, 0, ty, EmptyMap) : n \in Names, ty \in FieldKinds }]
                             : T \in SUBSET Tags } :
                \A t1, t2 \in DOMAIN m : m[t1].name = m[t2].name => t1 = t2 } }

\* FieldTypeByTag keys a field by its own tag
Tagged(spec) ==
  [spec EXCEPT !.FieldTypeByTag =
     [t \in DOMAIN spec.FieldTypeByTag |-> [spec.FieldTypeByTag[t] EXCEPT !.tag = t]]]

ArgLists(D) == UNION { [1..n -> { Tagged(d) : d \in D }] : n \in 0..MaxDicts }

\* ------------------------------------------------------------ state
VARIABLES
  args,          \* flag.Args(): what datadictionary.Parse yields for each path
  pc,            \* position in main
  argi,          \* index of the dictionary the outer loop is at
  todo,          \* tags of spec.FieldTypeByTag the inner range has yet to visit
  fieldTypeMap,  \* name -> merged FieldType
  oldField,      \* loop body local: the stored definition it found ({} if none)
  field,         \* loop body local: the definition it stored ({} outside the loop)
  fieldTypes,    \* the list handed to the emitters
  files,         \* path -> content of the artifacts written so far
  h,             \* gen.ErrorHandler
  errs,          \* the errors reported so far
  attempted,     \* the emitters called so far, in order
  exitCode,      \* <<>> while running, <<code>> once the process has ended
  qField, qResult, qpc,   \* a call of the type mapper on its own
  body, provided, got, mpc  \* a message, a caller's field object, an accessor call

genVars ==
  <<args, pc, argi, todo, fieldTypeMap, oldField, field, fieldTypes, files, h,
    errs, attempted, exitCode>>
typeVars == <<qField, qResult, qpc>>
msgVars == <<body, provided, got, mpc>>
vars == <<genVars, typeVars, msgVars>>

\* ------------------------------------------------------------ merge
\* the range over oldField.Enums without the description check
RECURSIVE MergeEnums_noDescriptionCheck(_, _, _)
MergeEnums_noDescriptionCheck(oldEnums, acc, order) ==
  IF order = <<>> THEN acc
  ELSE LET enumVal == Head(order)
           next == IF enumVal \notin DOMAIN acc
                     THEN MapPut(acc, enumVal, oldEnums[enumVal])
                     ELSE acc
       IN  MergeEnums_noDescriptionCheck(oldEnums, next, Tail(order))

\* the range over oldField.Enums without the test that the value is new
RECURSIVE MergeEnums_overwrite(_, _, _)
MergeEnums_overwrite(oldEnums, acc, order) ==
  IF order = <<>> THEN acc
  ELSE LET enumVal == Head(order)
           okToKeepEnum == \A w \in DOMAIN acc : acc[w] # oldEnums[enumVal]
           next == IF okToKeepEnum
                     THEN MapPut(acc, enumVal, oldEnums[enumVal])
                     ELSE acc
       IN  MergeEnums_overwrite(oldEnums, next, Tail(order))

\* lines 254-269: the range over oldField.Enums, visiting the values in `order`;
\* acc is field.Enums as the loop has left it so far, so the description check
\* of lines 258-263 also sees the old entries already copied
RECURSIVE MergeEnums(_, _, _)
MergeEnums(oldEnums, acc, order) ==
  IF order = <<>> THEN acc
  ELSE LET enumVal == Head(order)
           okToKeepEnum == \A w \in DOMAIN acc : acc[w] # oldEnums[enumVal]
           next == IF enumVal \notin DOMAIN acc /\ okToKeepEnum
                     THEN MapPut(acc, enumVal, oldEnums[enumVal])
                     ELSE acc
       IN  MergeEnums(oldEnums, next, Tail(order))

\* lines 250-252: field.Enums is made when the old definition has enums and
\* the new one has a nil map
MakeEnums(old, new) ==
  IF Cardinality(DOMAIN old.enums) > 0 /\ new.enumsNil
    THEN [new EXCEPT !.enumsNil = FALSE] ELSE new

\* line 266 on a nil map: Go panics with "assignment to entry in nil map"
NilMapWrite(old, new, order) ==
  LET made == MakeEnums(old, new)
  IN  made.enumsNil /\ MergeEnums(old.enums, made.enums, order) # made.enums

\* the old definition's type and tag are stored with the merged enums
MergeField_keepOld(old, new, order) ==
  [old EXCEPT !.enums = MergeEnums(old.enums, MakeEnums(old, new).enums, order)]

\* lines 248-270: the new definition after the old one's enums are merged in
MergeField(old, new, order) ==
  LET made == MakeEnums(old, new)
  IN  [made EXCEPT !.enums = MergeEnums(old.enums, made.enums, order)]

\* ------------------------------------------------------------ sort
Less(a, b) == StrLess(a.name, b.name)

\* sort.Sort(byFieldName(fieldTypes)): the list in ascending Less order
RECURSIVE Insert(_, _)
Insert(sorted, x) ==
  IF sorted = <<>> THEN <<x>>
  ELSE IF Less(x, Head(sorted)) THEN <<x>> \o sorted
  ELSE <<Head(sorted)>> \o Insert(Tail(sorted), x)

RECURSIVE SortByFieldName(_)
SortByFieldName(list) ==
  IF list = <<>> THEN <<>>
  ELSE Insert(SortByFieldName(Tail(list)), Head(list))

\* ------------------------------------------------------------ emitters
TagPath == "tag/tag_numbers.go"
FieldPath == "field/fields.go"
EnumPath == "enum/enums.go"

\* gen.WriteFile: the whole file is overwritten, or the write fails
WriteFile(path, content, fs, writeOK) ==
  IF writeOK THEN [files |-> MapPut(fs, path, content), err |-> NoErr]
  ELSE [files |-> fs, err |-> WriteErr(path)]

\* tagTemplate: one constant per field, in list order
TagTemplate(fts) ==
  [i \in 1..Len(fts) |-> [name |-> fts[i].name, tag |-> fts[i].tag]]

genTags(fts, fs, writeOK) == WriteFile(TagPath, TagTemplate(fts), fs, writeOK)

\* fieldTemplate: Execute stops at the first field whose quickfixType fails
FieldTemplateErr(fts) ==
  LET bad == { i \in 1..Len(fts) : quickfixType(fts[i]).err # NoErr }
  IN  IF bad = {} THEN NoErr
      ELSE quickfixType(fts[CHOOSE i \in bad : \A j \in bad : i <= j]).err

FieldTemplate(fts) ==
  [i \in 1..Len(fts) |->
     LET base == quickfixType(fts[i]).quickfixType
     IN  [name |-> fts[i].name, type |-> fts[i].type, tag |-> fts[i].tag,
          base |-> base,
          constructors |->
            IF base = "FIXUTCTimestamp"
              THEN << [ctor |-> "New", val |-> "time.Time"],
                      [ctor |-> "NewNoMillis", val |-> "time.Time"] >>
              ELSE << [ctor |-> "New", val |-> quickfixValueType(base)] >>]]

genFields(fts, fs, writeOK) ==
  IF FieldTemplateErr(fts) # NoErr
    THEN [files |-> fs, err |-> FieldTemplateErr(fts)]
    ELSE WriteFile(FieldPath, FieldTemplate(fts), fs, writeOK)

\* text/template ranges over a map in sorted key order
SortedKeys(S) ==
  CHOOSE p \in Perms(S) : \A i, j \in DOMAIN p : i < j => StrLess(p[i], p[j])

\* enumTemplate: one block per field with enums, one constant per enum
EnumTemplate(fts) ==
  LET withEnums == SelectSeq(fts, LAMBDA ft : DOMAIN ft.enums # {})
  IN  [i \in 1..Len(withEnums) |->
         LET ft == withEnums[i]
             keys == SortedKeys(DOMAIN ft.enums)
         IN  [name |-> ft.name,
              consts |-> [k \in DOMAIN keys |->
                            [description |-> ft.enums[keys[k]], value |-> keys[k]]]]]

genEnums(fts, fs, writeOK) == WriteFile(EnumPath, EnumTemplate(fts), fs, writeOK)

\* gen.ErrorHandler.Handle: a failed write is reported and turns the return
\* code non-zero, an unknown type ends the run at once
Handle(hh, err) ==
  IF err.kind = "nil" THEN [h |-> hh, abort |-> FALSE]
  ELSE IF err.kind = "write" THEN [h |-> [hh EXCEPT !.ReturnCode = 1], abort |-> FALSE]
  ELSE [h |-> hh, abort |-> TRUE]

\* ------------------------------------------------------------ main
IdleType == qField = {} /\ qResult = {} /\ qpc = "idle"
IdleMsg == body = EmptyMap /\ provided = "" /\ got = {} /\ mpc = "idle"
IdleGen ==
  /\ args = <<>> /\ pc = "idle" /\ argi = 0 /\ todo = {}
  /\ fieldTypeMap = EmptyMap /\ oldField = {} /\ field = {}
  /\ fieldTypes = <<>> /\ files = EmptyMap /\ h = [ReturnCode |-> 0]
  /\ errs = <<>> /\ attempted = <<>> /\ exitCode = <<>>

Init ==
  /\ args \in ArgLists(EnumDicts) \cup ArgLists(FieldDicts)
  /\ pc = "start" /\ argi = 0 /\ todo = {}
  /\ fieldTypeMap = EmptyMap /\ oldField = {} /\ field = {}
  /\ fieldTypes = <<>> /\ files = EmptyMap /\ h = [ReturnCode |-> 0]
  /\ errs = <<>> /\ attempted = <<>> /\ exitCode = <<>>
  /\ IdleType /\ IdleMsg

\* lines 233-235 and 21-25: no dictionary argument
Usage ==
  /\ pc = "start" /\ Len(args) = 0
  /\ pc' = "done" /\ exitCode' = <<2>>
  /\ UNCHANGED <<typeVars, msgVars>>
  /\ UNCHANGED <<args, argi, todo, fieldTypeMap, oldField, field, fieldTypes,
                 files, h, errs, attempted>>

\* line 237
Start ==
  /\ pc = "start" /\ Len(args) > 0
  /\ pc' = "parse"
  /\ UNCHANGED <<typeVars, msgVars>>
  /\ UNCHANGED <<args, argi, todo, fieldTypeMap, oldField, field, fieldTypes,
                 files, h, errs, attempted, exitCode>>

\* lines 239-245: the next path does not parse, main panics
ParseFail ==
  /\ pc = "parse" /\ argi < Len(args) /\ ~args[argi + 1].ok
  /\ argi' = argi + 1
  /\ errs' = Append(errs, ParseErr(argi + 1))
  /\ pc' = "done" /\ exitCode' = <<2>>
  /\ oldField' = {} /\ field' = {}
  /\ UNCHANGED <<typeVars, msgVars>>
  /\ UNCHANGED <<args, todo, fieldTypeMap, fieldTypes, files, h, attempted>>

\* lines 239-247: the next path parses, the range over its fields begins
ParseOK ==
  /\ pc = "parse" /\ argi < Len(args) /\ args[argi + 1].ok
  /\ argi' = argi + 1
  /\ todo' = DOMAIN args[argi + 1].FieldTypeByTag
  /\ pc' = IF todo' = {} THEN "parse" ELSE "merge"
  /\ oldField' = {} /\ field' = {}
  /\ UNCHANGED <<typeVars, msgVars>>
  /\ UNCHANGED <<args, fieldTypeMap, fieldTypes, files, h, errs, attempted,
                 exitCode>>

\* lines 247-273: one pass of the loop body, for whichever field the range
\* over FieldTypeByTag yields next
MergeNext ==
  /\ pc = "merge"
  /\ \E t \in todo :
       LET new == args[argi].FieldTypeByTag[t]
       IN  /\ todo' = todo \ {t}
           /\ IF new.name \in DOMAIN fieldTypeMap
                THEN LET old == fieldTypeMap[new.name]
                     IN  \E order \in Perms(DOMAIN old.enums) :
                           /\ oldField' = {old}
                           /\ IF NilMapWrite(old, new, order)
                                THEN /\ pc' = "done" /\ exitCode' = <<2>>
                                     /\ UNCHANGED <<fieldTypeMap, field>>
                                ELSE /\ field' = {MergeField(old, new, order)}
                                     /\ fieldTypeMap' =
                                          MapPut(fieldTypeMap, new.name,
                                                 MergeField(old, new, order))
                                     /\ pc' = IF todo' = {} THEN "parse" ELSE "merge"
                                     /\ UNCHANGED exitCode
                ELSE /\ oldField' = {}
                     /\ field' = {new}
                     /\ fieldTypeMap' = MapPut(fieldTypeMap, new.name, new)
                     /\ pc' = IF todo' = {} THEN "parse" ELSE "merge"
                     /\ UNCHANGED exitCode
  /\ UNCHANGED <<typeVars, msgVars>>
  /\ UNCHANGED <<args, argi, fieldTypes, files, h, errs, attempted>>

\* the list is built in an order that ignores the map's iteration order
Collect_unsorted ==
  /\ pc = "parse" /\ argi = Len(args)
  /\ \E p \in Perms(DOMAIN fieldTypeMap) :
       fieldTypes' = [i \in DOMAIN p |-> fieldTypeMap[p[i]]]
  /\ pc' = "genTags"
  /\ UNCHANGED <<typeVars, msgVars>>
  /\ UNCHANGED <<args, argi, todo, fieldTypeMap, oldField, field, files, h, errs,
                 attempted, exitCode>>

\* lines 276-283: the map's values, in the map's iteration order, then sorted
Collect ==
  /\ pc = "parse" /\ argi = Len(args)
  /\ \E p \in Perms(DOMAIN fieldTypeMap) :
       fieldTypes' = SortByFieldName([i \in DOMAIN p |-> fieldTypeMap[p[i]]])
  /\ pc' = "genTags"
  /\ UNCHANGED <<typeVars, msgVars>>
  /\ UNCHANGED <<args, argi, todo, fieldTypeMap, oldField, field, files, h, errs,
                 attempted, exitCode>>

\* h.Handle(err) in main, and where main goes next
Handled(err, nextpc) ==
  /\ h' = Handle(h, err).h
  /\ errs' = IF err = NoErr THEN errs ELSE Append(errs, err)
  /\ IF Handle(h, err).abort
       THEN pc' = "done" /\ exitCode' = <<2>>
       ELSE pc' = nextpc /\ UNCHANGED exitCode

\* line 286
GenTags ==
  /\ pc = "genTags"
  /\ \E writeOK \in BOOLEAN :
       LET r == genTags(fieldTypes, files, writeOK)
       IN  files' = r.files /\ Handled(r.err, "genFields")
  /\ attempted' = Append(attempted, "tags")
  /\ UNCHANGED <<typeVars, msgVars>>
  /\ UNCHANGED <<args, argi, todo, fieldTypeMap, oldField, field, fieldTypes>>

\* main gives up after the field emitter's failed write
GenFields_stopsAfterFailure ==
  /\ pc = "genFields"
  /\ \E writeOK \in BOOLEAN :
       LET r == genFields(fieldTypes, files, writeOK)
       IN  files' = r.files
           /\ Handled(r.err, IF r.err = NoErr THEN "genEnums" ELSE "exit")
  /\ attempted' = Append(attempted, "fields")
  /\ UNCHANGED <<typeVars, msgVars>>
  /\ UNCHANGED <<args, argi, todo, fieldTypeMap, oldField, field, fieldTypes>>

\* line 287
GenFields ==
  /\ pc = "genFields"
  /\ \E writeOK \in BOOLEAN :
       LET r == genFields(fieldTypes, files, writeOK)
       IN  files' = r.files /\ Handled(r.err, "genEnums")
  /\ attempted' = Append(attempted, "fields")
  /\ UNCHANGED <<typeVars, msgVars>>
  /\ UNCHANGED <<args, argi, todo, fieldTypeMap, oldField, field, fieldTypes>>

\* line 288
GenEnums ==
  /\ pc = "genEnums"
  /\ \E writeOK \in BOOLEAN :
       LET r == genEnums(fieldTypes, files, writeOK)
       IN  files' = r.files /\ Handled(r.err, "exit")
  /\ attempted' = Append(attempted, "enums")
  /\ UNCHANGED <<typeVars, msgVars>>
  /\ UNCHANGED <<args, argi, todo, fieldTypeMap, oldField, field, fieldTypes>>

\* line 289
Exit ==
  /\ pc = "exit"
  /\ pc' = "done" /\ exitCode' = <<h.ReturnCode>>
  /\ UNCHANGED <<typeVars, msgVars>>
  /\ UNCHANGED <<args, argi, todo, fieldTypeMap, oldField, field, fieldTypes,
                 files, h, errs, attempted>>

Next ==
  \/ Usage \/ Start \/ ParseFail \/ ParseOK \/ MergeNext \/ Collect
  \/ GenTags \/ GenFields \/ GenEnums \/ Exit

Spec == Init /\ [][Next]_vars

\* ------------------------------------------------------------ type mapper alone
\* the names the type mapper is called with: its table, and names outside it
\* (the switch compares case-sensitively)
TypeNames ==
  StringTypes \cup {"BOOLEAN"} \cup IntTypes \cup {"UTCTIMESTAMP"} \cup FloatTypes
    \cup {"BOGUSTYPE", "string", ""}

InitType ==
  /\ IdleGen /\ IdleMsg
  /\ qField \in { {[type |-> ty, tag |-> t]} : ty \in TypeNames, t \in 1..MaxTag }
  /\ qResult = <<>>
  /\ qpc = "call"

\* template step {{ $base_type := quickfixType . }}
CallQuickfixType ==
  /\ qpc = "call" /\ Len(qResult) < MaxCalls
  /\ \E f \in qField : qResult' = Append(qResult, quickfixType(f))
  /\ UNCHANGED <<qField, qpc>>
  /\ UNCHANGED <<genVars, msgVars>>

\* template step {{ quickfixValueType $base_type }}
CallQuickfixValueType ==
  /\ qpc = "call" /\ Len(qResult) > 0
  /\ qpc' = quickfixValueType(qResult[Len(qResult)].quickfixType)
  /\ UNCHANGED <<qField, qResult>>
  /\ UNCHANGED <<genVars, msgVars>>

NextType == CallQuickfixType \/ CallQuickfixValueType

SpecType == InitType /\ [][NextType]_vars

\* ------------------------------------------------------------ message wrapper
\* two of the optional fields of SecurityListUpdateReport, the values a field
\* can be set to, and the value of a freshly allocated field object
MsgFields == {"SecurityReportID", "SecurityReqID"}
FieldValues == {"a", "b"}
ZeroValue == ""

\* FieldMap.Get(f): the field's value is read into f, or the field is absent
\* and f is left as it was
BodyGet(b, name, f) ==
  IF name \in DOMAIN b THEN [f |-> b[name], err |-> "nil"]
  ELSE [f |-> f, err |-> "fieldAbsent"]

\* the error of Body.Get is dropped
Getter_dropsError(b, name) == [f |-> BodyGet(b, name, ZeroValue).f, err |-> "nil"]

\* lines 16-20, 28-32, ...: X() reads into a new field object
Getter(b, name) ==
  LET f == ZeroValue
      r == BodyGet(b, name, f)
  IN  [f |-> r.f, err |-> r.err]

\* lines 23-25, 35-37, ...: GetX(f) reads into the caller's field object
GetInto(b, name, f) == BodyGet(b, name, f)

\* New(): a message with an empty body; no accessor has been called
InitMsg ==
  /\ IdleGen /\ IdleType
  /\ body = EmptyMap
  /\ provided \in FieldValues \cup {ZeroValue}
  /\ got = {}
  /\ mpc = "built"

\* the owner of the message sets a field of the body
SetField ==
  /\ mpc = "built"
  /\ \E name \in MsgFields, v \in FieldValues : body' = MapPut(body, name, v)
  /\ got' = {}
  /\ UNCHANGED <<provided, mpc>>
  /\ UNCHANGED <<genVars, typeVars>>

\* the caller passes another field object of its own to the next GetX
NewProvided ==
  /\ mpc = "built"
  /\ \E v \in FieldValues \cup {ZeroValue} : provided' = v
  /\ UNCHANGED <<body, got, mpc>>
  /\ UNCHANGED <<genVars, typeVars>>

\* a call m.X(); the call record keeps the body before and after the call
CallGetter ==
  /\ mpc = "built"
  /\ UNCHANGED <<body, provided, mpc>>
  /\ \E name \in MsgFields :
       got' = { r \in got : r.form # "X" \/ r.field # name }
                \cup { [form |-> "X", field |-> name, provided |-> ZeroValue,
                        f |-> Getter(body, name).f, err |-> Getter(body, name).err,
                        before |-> body, after |-> body'] }
  /\ UNCHANGED <<genVars, typeVars>>

\* a call m.GetX(f) with the caller's field object
CallGetInto ==
  /\ mpc = "built"
  /\ UNCHANGED <<body, mpc>>
  /\ \E name \in MsgFields :
       /\ got' = { r \in got : r.form # "GetX" \/ r.field # name }
                   \cup { [form |-> "GetX", field |-> name, provided |-> provided,
                           f |-> GetInto(body, name, provided).f,
                           err |-> GetInto(body, name, provided).err,
                           before |-> body, after |-> body'] }
       /\ provided' = GetInto(body, name, provided).f
  /\ UNCHANGED <<genVars, typeVars>>

NextMsg == SetField \/ NewProvided \/ CallGetter \/ CallGetInto

SpecMsg == InitMsg /\ [][NextMsg]_vars

\* ------------------------------------------------------------ properties
Range(m) == { m[x] : x \in DOMAIN m }

Injective(m) == \A v, w \in DOMAIN m : m[v] = m[w] => v = w

\* main has merged every dictionary and built the list for the emitters
Collected ==
  pc \in {"genTags", "genFields", "genEnums", "exit"}
    \/ (pc = "done" /\ attempted # <<>>)

\* dictionary i declares a field named n, and that declaration as parsed
Declares(i, n) ==
  args[i].ok /\ \E f \in Range(args[i].FieldTypeByTag) : f.name = n

Declared(i, n) == CHOOSE f \in Range(args[i].FieldTypeByTag) : f.name = n

LastSource(n) ==
  CHOOSE i \in DOMAIN args :
    Declares(i, n) /\ \A j \in DOMAIN args : j > i => ~Declares(j, n)

\* the loop body has just merged a stored definition (old) into a new one:
\* old, the new definition as parsed, and the merged definition stored
MergedPair == oldField # {} /\ field # {}
PairOld == CHOOSE f \in oldField : TRUE
PairMerged == CHOOSE f \in field : TRUE
PairNew == args[argi].FieldTypeByTag[PairMerged.tag]

\* C1 as stated: every enum value of old that new lacks is in the merged set,
\* unless an enum of new carries its description, and then it is not
C1_OldEnumsKeptUnlessNewHasDescription ==
  MergedPair =>
    \A v \in DOMAIN PairOld.enums \ DOMAIN PairNew.enums :
      IF PairOld.enums[v] \in Range(PairNew.enums)
        THEN v \notin DOMAIN PairMerged.enums
        ELSE v \in DOMAIN PairMerged.enums

\* C2 as stated: in the merged set no tag belongs to two names and no name
\* has two tags
C2_NamesAndTagsBijective ==
  Collected =>
    \A i, j \in DOMAIN fieldTypes :
      i # j => fieldTypes[i].name # fieldTypes[j].name
               /\ fieldTypes[i].tag # fieldTypes[j].tag

\* the sources agree on the name of every tag they declare
TagsNamedAlike ==
  \A i, j \in DOMAIN args :
    \A t \in DOMAIN args[i].FieldTypeByTag \cap DOMAIN args[j].FieldTypeByTag :
      args[i].FieldTypeByTag[t].name = args[j].FieldTypeByTag[t].name

\* C2 amended: every merged name appears once, with the tag of the last source
\* that declares it; no tag belongs to two names when the sources agree on the
\* name of every tag
C2_NameHasOneTag ==
  Collected =>
    /\ \A i, j \in DOMAIN fieldTypes :
         i # j => fieldTypes[i].name # fieldTypes[j].name
    /\ \A i \in DOMAIN fieldTypes :
         fieldTypes[i].tag = Declared(LastSource(fieldTypes[i].name), fieldTypes[i].name).tag
    /\ TagsNamedAlike =>
         \A i, j \in DOMAIN fieldTypes : i # j => fieldTypes[i].tag # fieldTypes[j].tag

\* two names from two sources that agree on the tags' names, one of the names
\* declared by the older source only
C2_Witness ==
  /\ Collected /\ Len(fieldTypes) = 2 /\ TagsNamedAlike /\ Len(args) = 2
  /\ Declares(1, NameA) /\ Declares(2, NameA)
  /\ Declares(1, NameB) /\ ~Declares(2, NameB)

\* C3 as stated: no two enum entries of a merged field share a description
C3_NoSharedDescription ==
  Collected => \A i \in DOMAIN fieldTypes : Injective(fieldTypes[i].enums)

\* C3 amended: no two enum entries of a merged field share a description,
\* provided the last source that declares the field gives no two of its own
\* enum values the same description
C3_NoSharedDescriptionIfNewestHasNone ==
  Collected =>
    \A i \in DOMAIN fieldTypes :
      Injective(Declared(LastSource(fieldTypes[i].name), fieldTypes[i].name).enums)
        => Injective(fieldTypes[i].enums)

C3_Witness ==
  /\ Collected /\ Len(args) = 2 /\ Len(fieldTypes) = 1
  /\ Declares(1, NameA) /\ Declares(2, NameA)
  /\ Injective(Declared(2, NameA).enums)
  /\ ~Injective(Declared(1, NameA).enums)
  /\ DOMAIN Declared(1, NameA).enums \cap DOMAIN Declared(2, NameA).enums = {}
  /\ Cardinality(DOMAIN fieldTypes[1].enums) = 2
  /\ DOMAIN Declared(2, NameA).enums # {}

\* C4: the merged definition of a name has the type, the tag and every enum
\* entry of the last source that declares the name, and every other enum entry
\* of it is an entry of an earlier source
C4_LatestDefinitionWins ==
  Collected =>
    /\ { fieldTypes[i].name : i \in DOMAIN fieldTypes }
         = { n \in Names : \E k \in DOMAIN args : Declares(k, n) }
    /\ \A i \in DOMAIN fieldTypes :
         LET m == fieldTypes[i]
             last == LastSource(m.name)
             new == Declared(last, m.name)
         IN  /\ m = fieldTypeMap[m.name]
             /\ m.type = new.type /\ m.tag = new.tag
             /\ \A v \in DOMAIN new.enums :
                  v \in DOMAIN m.enums /\ m.enums[v] = new.enums[v]
             /\ \A v \in DOMAIN m.enums \ DOMAIN new.enums :
                  \E k \in 1..(last - 1) :
                    /\ Declares(k, m.name)
                    /\ v \in DOMAIN Declared(k, m.name).enums
                    /\ Declared(k, m.name).enums[v] = m.enums[v]

\* two sources give one value different descriptions and the older source
\* also contributes an entry
C4_Witness ==
  /\ Collected /\ Len(args) = 2 /\ Declares(1, NameA) /\ Declares(2, NameA)
  /\ \E v \in DOMAIN Declared(1, NameA).enums \cap DOMAIN Declared(2, NameA).enums :
       Declared(1, NameA).enums[v] # Declared(2, NameA).enums[v]
  /\ DOMAIN fieldTypeMap[NameA].enums # DOMAIN Declared(2, NameA).enums

\* the run in which every range over a map visits the keys in ascending order
RECURSIVE RefMergeFields(_, _, _)
RefMergeFields(m, byTag, T) ==
  IF T = {} THEN m
  ELSE LET t == CHOOSE x \in T : \A y \in T : x <= y
           new == byTag[t]
           stored == IF new.name \in DOMAIN m
                       THEN MergeField(m[new.name], new,
                                       SortedKeys(DOMAIN m[new.name].enums))
                       ELSE new
       IN  RefMergeFields(MapPut(m, new.name, stored), byTag, T \ {t})

RECURSIVE RefMap(_)
RefMap(k) ==
  IF k = 0 THEN EmptyMap
  ELSE RefMergeFields(RefMap(k - 1), args[k].FieldTypeByTag,
                      DOMAIN args[k].FieldTypeByTag)

RefList ==
  LET m == RefMap(Len(args))
      names == SortedKeys(DOMAIN m)
  IN  [i \in DOMAIN names |-> m[names[i]]]

\* C7 as stated: whatever order the maps are iterated in, the list handed to
\* the emitters and every artifact written are those of any other run on the
\* same dictionaries (here: the run that iterates in ascending key order)
C7_SameOutputEveryRun ==
  Collected =>
    /\ fieldTypes = RefList
    /\ TagPath \in DOMAIN files => files[TagPath] = TagTemplate(RefList)
    /\ FieldPath \in DOMAIN files => files[FieldPath] = FieldTemplate(RefList)
    /\ EnumPath \in DOMAIN files => files[EnumPath] = EnumTemplate(RefList)

\* C9: the list handed to the emitters holds each merged name once, strictly
\* ascending by name, and each artifact lists the fields in that order
C9_SortedByName ==
  Collected =>
    /\ Len(fieldTypes) = Cardinality(DOMAIN fieldTypeMap)
    /\ { fieldTypes[i].name : i \in DOMAIN fieldTypes } = DOMAIN fieldTypeMap
    /\ \A i, j \in DOMAIN fieldTypes :
         i < j => StrLess(fieldTypes[i].name, fieldTypes[j].name)
    /\ \A path \in DOMAIN files :
         \A i, j \in DOMAIN files[path] :
           i < j => StrLess(files[path][i].name, files[path][j].name)
    /\ \A path \in DOMAIN files \cap {TagPath, FieldPath} :
         /\ Len(files[path]) = Len(fieldTypes)
         /\ \A i \in DOMAIN fieldTypes : files[path][i].name = fieldTypes[i].name

\* three names, first declared in descending order, and the tag file written
C9_Witness ==
  /\ Collected /\ Len(fieldTypes) = 3 /\ TagPath \in DOMAIN files
  /\ Declares(1, NameB) /\ ~Declares(1, NameA) /\ Declares(2, NameA)

\* the type names of quickfixType's table
FixedTable == StringTypes \cup {"BOOLEAN"} \cup IntTypes \cup {"UTCTIMESTAMP"} \cup FloatTypes

UnknownTyped == { i \in DOMAIN fieldTypes : fieldTypes[i].type \notin FixedTable }

FirstUnknown == CHOOSE i \in UnknownTyped : \A j \in UnknownTyped : i <= j

\* C5: with a field of unknown type in the merged set, the run ends at the
\* field emitter with an error naming the type and the tag, nothing is
\* attempted or written afterwards, and the exit code is not 0
C5_UnknownTypeAborts ==
  (Collected /\ UnknownTyped # {}) =>
    /\ "enums" \notin Range(attempted)
    /\ FieldPath \notin DOMAIN files /\ EnumPath \notin DOMAIN files
    /\ "fields" \in Range(attempted) =>
         /\ pc = "done" /\ exitCode # <<>> /\ exitCode # <<0>>
         /\ attempted = <<"tags", "fields">>
         /\ errs[Len(errs)] = UnknownTypeErr(fieldTypes[FirstUnknown].type,
                                             fieldTypes[FirstUnknown].tag)

C5_Witness ==
  /\ Collected /\ UnknownTyped # {} /\ pc = "done" /\ Len(fieldTypes) = 2
  /\ TagPath \in DOMAIN files

\* every emitter that was attempted and did not write its file left an error
FailuresRecorded ==
  /\ Len(errs) = Cardinality({ k \in DOMAIN attempted :
        (CASE attempted[k] = "tags" -> TagPath
           [] attempted[k] = "fields" -> FieldPath
           [] attempted[k] = "enums" -> EnumPath) \notin DOMAIN files })
  /\ \A path \in {TagPath, FieldPath, EnumPath} :
       WriteErr(path) \in Range(errs) => path \notin DOMAIN files

AllThreeWritten == DOMAIN files = {TagPath, FieldPath, EnumPath}

\* C6 as stated: once the list is built all three emitters are attempted in
\* order whatever the earlier ones did, every failure is recorded, and the
\* exit code is 0 exactly when all three succeeded
C6_AllEmittersAttempted ==
  (Collected /\ pc = "done") =>
    /\ attempted = <<"tags", "fields", "enums">>
    /\ FailuresRecorded
    /\ exitCode = <<0>> <=> AllThreeWritten

\* C6 amended: the emitters are attempted in the order tags, fields, enums; a
\* failed write is recorded and does not stop the later emitters, an unknown
\* type in the field emitter ends the run before the enum emitter; every
\* failure is recorded and the exit code is 0 exactly when all three succeeded
C6_EmittersAttemptedUnlessUnknownType ==
  (Collected /\ pc = "done") =>
    /\ attempted = IF UnknownTyped = {} THEN <<"tags", "fields", "enums">>
                                        ELSE <<"tags", "fields">>
    /\ FailuresRecorded
    /\ exitCode # <<>>
    /\ exitCode = <<0>> <=> AllThreeWritten

\* the tag and field writes failed and the enum emitter still wrote its file
C6_Witness ==
  /\ Collected /\ pc = "done" /\ DOMAIN files = {EnumPath}
  /\ Len(errs) = 2 /\ exitCode = <<1>> /\ Len(fieldTypes) = 2

\* the five categories of the type mapper
Categories == {"FIXString", "FIXBoolean", "FIXInt", "FIXUTCTimestamp", "FIXFloat"}

\* C8: every name of the table maps, without error, to one of the five
\* categories (STRING to text), every other name to an error naming the type
\* and the tag and to no category, and every call on a name gives the same
C8_TypeMappingTotal ==
  \A k \in DOMAIN qResult :
    LET f == CHOOSE x \in qField : TRUE
        r == qResult[k]
    IN  /\ f.type \in FixedTable =>
             /\ r.err = NoErr /\ r.quickfixType \in Categories
             /\ f.type = "STRING" => r.quickfixType = "FIXString"
             /\ f.type = "BOOLEAN" => r.quickfixType = "FIXBoolean"
             /\ f.type = "INT" => r.quickfixType = "FIXInt"
             /\ f.type = "UTCTIMESTAMP" => r.quickfixType = "FIXUTCTimestamp"
             /\ f.type = "FLOAT" => r.quickfixType = "FIXFloat"
        /\ f.type \notin FixedTable =>
             /\ r.quickfixType = ""
             /\ r.err.kind = "unknownType" /\ r.err.type = f.type /\ r.err.tag = f.tag
        /\ r = qResult[1]

C8_Witness ==
  /\ Len(qResult) = 2 /\ qpc = "time.Time"
  /\ \E f \in qField : f.type = "UTCTIMESTAMP"

\* what each accessor call returned for an absent and for a present field
AccessorResults ==
  \A r \in got :
    /\ r.after = r.before
    /\ r.field \notin DOMAIN r.before =>
         /\ r.err = "fieldAbsent"
         /\ r.form = "X" => r.f = ZeroValue
    /\ r.field \in DOMAIN r.before =>
         r.err = "nil" /\ r.f = r.before[r.field]

\* C10 as stated: absent field, both forms return the absence error, X() a
\* zero-value object, the message unchanged; present field, no error and the
\* value set; the two forms agree on the error and on the field value
C10_AccessorsAgree ==
  /\ AccessorResults
  /\ \A r1, r2 \in got :
       r1.field = r2.field => r1.err = r2.err /\ r1.f = r2.f

\* C10 amended: as stated, except that for an absent field GetX(f) leaves the
\* caller's object as it was passed, so the two forms agree on the field value
\* when the field is present or the object passed was a zero-value one
C10_AccessorsAgreeOnErrorAndPresentValue ==
  /\ AccessorResults
  /\ \A r \in got :
       (r.form = "GetX" /\ r.field \notin DOMAIN r.before) => r.f = r.provided
  /\ \A r1, r2 \in got :
       r1.field = r2.field =>
         /\ r1.err = r2.err
         /\ (r1.field \in DOMAIN r1.before
               \/ (r1.provided = ZeroValue /\ r2.provided = ZeroValue))
              => r1.f = r2.f

\* both forms were called for a field that is set and for one that is absent
C10_Witness ==
  /\ Cardinality(got) = 4
  /\ DOMAIN body = {"SecurityReqID"}
  /\ \E r \in got : r.form = "GetX" /\ r.field = "SecurityReportID"
                    /\ r.provided # ZeroValue

====
